---- MODULE Spec2Model ----
(***************************************************************************)
(* Model of the crawl orchestration engine of websight-analyzer:           *)
(* WebCrawler (src/core/playwright_web_elements_analyzer.py), its URL      *)
(* filter should_crawl_url, the link extractor extract_links and the      *)
(* crawl report.                                                           *)
(***************************************************************************)
EXTENDS Integers, Sequences, FiniteSets, TLC

(***************************************************************************)
(* Bounds of the model.                                                    *)
(***************************************************************************)
MaxDepth == 2
MaxPages == 4
MaxHrefs == 3
MaxClock == 2
MaxCalls == 2
MaxFailed == 101
MaxDuration == 3

(***************************************************************************)
(* The URLs of the modelled site.  A URL is its text; what urlparse and    *)
(* the string tests of the code compute from the text is tabulated below.  *)
(***************************************************************************)
StartUrl == "https://site.test/"
UrlA == "https://site.test/a"
UrlB == "https://site.test/b"
UrlR == "https://site.test/go?href=/t"
UrlT == "https://site.test/t</title"
UrlX == "https://other.test/x"

Urls == {StartUrl, UrlA, UrlB, UrlR, UrlT, UrlX}

\* URLs of other sites and spellings, for calls of the filter and of the
\* directory allocator outside the modelled site
UrlAQ == "https://site.test/a?p=2"
UrlPort == "https://site.test:8080/a"
UrlShop == "https://shop.example.com/"
UrlWww == "https://www.example.com/x"
UrlEvil == "https://evil.com/x"
UrlLocal == "http://localhost/"
UrlIntra == "http://intranet/x"
UrlAFrag == "https://site.test/a#top"
UrlRootFrag == "https://site.test/#top"
UrlYnet == "https://www.ynet.co.il/"
UrlYnetNews == "https://www.ynet.co.il/news/article/1"
UrlYnetApi == "https://www.ynet.co.il/news/api/1"

\* urlparse(url).netloc.split('.')
HostParts(url) ==
    CASE url = UrlX -> <<"other", "test">>
      [] url = UrlPort -> <<"site", "test:8080">>
      [] url = UrlShop -> <<"shop", "example", "com">>
      [] url = UrlWww -> <<"www", "example", "com">>
      [] url = UrlEvil -> <<"evil", "com">>
      [] url = UrlLocal -> <<"localhost">>
      [] url = UrlIntra -> <<"intranet">>
      [] url \in {UrlYnet, UrlYnetNews, UrlYnetApi} -> <<"www", "ynet", "co", "il">>
      [] OTHER -> <<"site", "test">>

\* lower_url.endswith(ext) for some ext of excluded_extensions
EndsWithExcludedExt(url) == FALSE

\* pattern in lower_url for some pattern of api_patterns
HasApiPattern(url) == url = UrlYnetApi

\* the configured regex patterns that pattern.search(url) matches
MatchedPatterns(url) == {}

\* '#' in url
HasFragment(url) == url \in {UrlAFrag, UrlRootFrag}

\* url.split('#')[0]
FragmentBase(url) ==
    CASE url = UrlAFrag -> UrlA
      [] url = UrlRootFrag -> StartUrl
      [] OTHER -> url

\* '?' in url
HasQuery(url) == url \in {UrlR, UrlAQ}

\* len(urlparse(url).query), urlparse(url).query.count('&'), len(url)
QueryLen(url) ==
    CASE url = UrlR -> 7
      [] url = UrlAQ -> 3
      [] OTHER -> 0
QueryAmps(url) == 0
UrlLen(url) ==
    CASE url = StartUrl -> 18
      [] url = UrlA -> 19
      [] url = UrlB -> 19
      [] url = UrlR -> 28
      [] url = UrlT -> 26
      [] url = UrlAQ -> 23
      [] url = UrlPort -> 24
      [] url = UrlShop -> 25
      [] url = UrlWww -> 25
      [] url = UrlEvil -> 18
      [] url = UrlLocal -> 17
      [] url = UrlIntra -> 17
      [] url = UrlYnet -> 23
      [] url = UrlYnetNews -> 37
      [] url = UrlYnetApi -> 33
      [] OTHER -> 20

\* "ynet" in lower_url and an allowed_patterns entry in lower_url
IsYnetAllowed(url) == url \in {UrlYnetNews, UrlYnetApi}

(***************************************************************************)
(* Helpers.                                                                *)
(***************************************************************************)
Min(a, b) == IF a < b THEN a ELSE b

Range(s) == {s[i] : i \in 1..Len(s)}

\* dict[key] = value
Put(f, k, v) == [x \in (DOMAIN f) \cup {k} |-> IF x = k THEN v ELSE f[x]]

\* the last two labels of a host: '.'.join(parts[-2:])
MainDomain(parts) == SubSeq(parts, Len(parts) - 1, Len(parts))

\* the subsets of S that have k elements
RECURSIVE KSubsets(_, _)
KSubsets(S, k) ==
    IF k = 0 THEN {{}}
    ELSE UNION {{T \cup {e} : T \in KSubsets(S \ {e}, k - 1)} : e \in S}

\* Sequences over S of length at most n
SeqsUpTo(S, n) == UNION {[1..k -> S] : k \in 0..n}

(***************************************************************************)
(* URL Filtering Policy: WebCrawler.should_crawl_url.                      *)
(***************************************************************************)
\* mutant: rule 1 is missing
AlreadySeenNever(url, visited, failed) == FALSE

\* rule 1: url in self.visited_urls or url in self.failed_urls
AlreadySeen(url, visited, failed) == url \in visited \/ url \in failed

\* mutant: the domain rule lets every host pass
IsRelatedDomainAny(url, base_domain) == TRUE

\* mutant: the domain rule accepts the start host only
IsRelatedDomainSameHost(url, base_domain) == HostParts(url) = base_domain

\* rule 2: same netloc, or both hosts have two labels and the same last two
IsRelatedDomain(url, base_domain) ==
    \/ HostParts(url) = base_domain
    \/ /\ Len(base_domain) >= 2
       /\ Len(HostParts(url)) >= 2
       /\ MainDomain(base_domain) = MainDomain(HostParts(url))

\* rules 3..9, each a "return False" of should_crawl_url
RejectedByPathRules(url, visited, exclude_patterns, include_patterns) ==
    \/ EndsWithExcludedExt(url)
    \/ HasApiPattern(url)
    \/ MatchedPatterns(url) \cap exclude_patterns # {}
    \/ (include_patterns # {} /\ MatchedPatterns(url) \cap include_patterns = {})
    \/ (HasFragment(url) /\ FragmentBase(url) \in visited)
    \/ (HasQuery(url) /\ (QueryLen(url) > 150 \/ QueryAmps(url) > 8))
    \/ UrlLen(url) > 750

should_crawl_url(url, visited, failed, base_domain, exclude_patterns, include_patterns) ==
    IF AlreadySeen(url, visited, failed) THEN FALSE
    ELSE IF ~IsRelatedDomain(url, base_domain) THEN FALSE
    ELSE IF RejectedByPathRules(url, visited, exclude_patterns, include_patterns) THEN FALSE
    ELSE IF IsYnetAllowed(url) THEN TRUE
    ELSE TRUE

(***************************************************************************)
(* Link Extractor: extract_links.  A markup is the sequence of the texts   *)
(* that href_pattern captures, in document order.                          *)
(***************************************************************************)
HrefRoot == "/"
HrefA == "/a"
HrefAFrag == "/a#top"
HrefB == "/b"
HrefR == "/go?href=/t"
HrefT == "/t</title"
HrefX == "https://other.test/x"
HrefJs == "javascript:void(0)"
HrefBad == "//["
HrefHash == "#"
HrefHashTop == "#top"
HrefMail == "mailto:a@site.test"
HrefJsUpper == "JavaScript:void(0)"
HrefTel == "tel:123"

\* the well-formed hrefs that occur on the pages of the modelled site
PageHrefs == {HrefRoot, HrefA, HrefB, HrefR, HrefX}

\* link.startswith('#') / 'javascript:' / 'mailto:' / 'print=' ...
IsSkippedHrefNone(link) == FALSE
IsSkippedHref(link) == link \in {HrefHash, HrefHashTop, HrefJs, HrefMail}

\* urljoin(page_url, link) raises ValueError ("Invalid IPv6 URL")
UrljoinRaises(link) == link = HrefBad

\* urljoin(page_url, link) for a page of https://site.test
Urljoin(link) ==
    CASE link \in {HrefRoot, HrefHash} -> StartUrl
      [] link = HrefHashTop -> UrlRootFrag
      [] link = HrefA -> UrlA
      [] link = HrefAFrag -> UrlAFrag
      [] link = HrefB -> UrlB
      [] link = HrefR -> UrlR
      [] link = HrefT -> UrlT
      [] link = HrefX -> UrlX
      [] OTHER -> link

\* urljoin(page_url, link).split('#')[0]
NormalizedUrl(link) == FragmentBase(Urljoin(link))

\* normalized_url.startswith(('http://', 'https://'))
StartsWithHttp(url) == url \notin {HrefJs, HrefJsUpper, HrefMail, HrefTel}

\* the loop of extract_links: links in first-occurrence order, no duplicates
RECURSIVE ExtractLoop(_, _)
ExtractLoop(markup, links) ==
    IF markup = <<>> THEN links
    ELSE LET link == Head(markup)
             url == NormalizedUrl(link)
         IN  IF IsSkippedHref(link) \/ ~StartsWithHttp(url) \/ url \in Range(links)
             THEN ExtractLoop(Tail(markup), links)
             ELSE ExtractLoop(Tail(markup), Append(links, url))

extract_links(markup) == ExtractLoop(markup, <<>>)

\* extract_links raises when urljoin raises on an href it does not skip
ExtractRaises(markup) ==
    \E i \in 1..Len(markup) : ~IsSkippedHref(markup[i]) /\ UrljoinRaises(markup[i])

\* the hrefs of the minimal full_page.html that _analyze_page writes when
\* the analyzer fails: its only variable parts are the URL and str(e)
PlaceholderMarkup(url) == IF url = UrlR THEN <<HrefT>> ELSE <<>>

\* the markups a page of the site can have: up to MaxHrefs different hrefs
Markups ==
    {m \in SeqsUpTo(PageHrefs, MaxHrefs) :
        \A i, j \in DOMAIN m : i # j => m[i] # m[j]}

\* a markup with an href that urljoin cannot parse
MalformedMarkups == {<<HrefBad>>}

(***************************************************************************)
(* Output Location Allocator: WebCrawler._create_url_based_directory.      *)
(***************************************************************************)
\* parsed_url.netloc.replace(".", "_").replace(":", "_")
DomainDir(url) ==
    CASE url = UrlX -> "other_test"
      [] url = UrlPort -> "site_test_8080"
      [] url = UrlShop -> "shop_example_com"
      [] url = UrlWww -> "www_example_com"
      [] url = UrlEvil -> "evil_com"
      [] url = UrlLocal -> "localhost"
      [] url = UrlIntra -> "intranet"
      [] url \in {UrlYnet, UrlYnetNews, UrlYnetApi} -> "www_ynet_co_il"
      [] OTHER -> "site_test"

\* parsed_url.path.replace("/", "_").strip("_"), "homepage" when empty
PathDir(url) ==
    CASE url \in {StartUrl, UrlShop, UrlLocal, UrlYnet} -> "homepage"
      [] url = UrlYnetNews -> "news_article_1"
      [] url = UrlYnetApi -> "news_api_1"
      [] url \in {UrlA, UrlAQ, UrlPort} -> "a"
      [] url = UrlB -> "b"
      [] url = UrlR -> "go"
      [] url = UrlT -> "t<_title"
      [] OTHER -> "x"

\* base_output_dir/date_path/domain/path_HHMMSS at wall-clock second now
create_url_based_directory(url, now) == <<DomainDir(url), PathDir(url), now>>

(***************************************************************************)
(* State of one WebCrawler and of its crawl() call.                        *)
(***************************************************************************)
VARIABLES
    pc,             \* position in crawl()
    max_depth, max_pages, delay,    \* options
    visited_urls, failed_urls, urls_to_visit, url_to_depth,
    pages_crawled, results, start_time, end_time,
    total_work, completed_work,     \* progress estimate of crawl()
    current_url, current_depth, result_dir, \* locals of the loop body
    analysis,       \* what analyzer.analyze_url did for current_url
    report,         \* the report dict of _generate_crawl_report
    processed,      \* history: <<url, depth>> of every _analyze_page call
    pushOrder,      \* history: URLs in the order of their first append
    pushLog,        \* history: <<parent, child>> of every append
    iter,           \* history: state just after the pop of this iteration
    visitAdds,      \* history: number of visited_urls.add(url) calls per URL
    reportCalls,    \* history: number of _generate_crawl_report calls
    page_content,   \* local of the loop body: what _get_page_content returned
    rejected,       \* history: links of this iteration that should_crawl_url refused
    slept,          \* history: time.sleep ran since the last _analyze_page call
    probe           \* arguments and result of a function called on its own

vars == <<pc, max_depth, max_pages, delay, visited_urls, failed_urls,
          urls_to_visit, url_to_depth, pages_crawled, results, start_time,
          end_time, total_work, completed_work, current_url, current_depth,
          result_dir, analysis, report, processed, pushOrder, pushLog, iter,
          visitAdds, reportCalls, page_content, rejected, slept, probe>>

None == "None"
NoTime == -1
NoReport == [start_url |-> None, pages_crawled |-> 0, max_depth |-> 0,
             duration_seconds |-> 0, visited_urls |-> 0, failed_urls |-> 0,
             pages |-> <<>>, failed |-> {}, summary_rate |-> 0, html_rate |-> 0]
\* page_content before _get_page_content has run in this iteration
NotRead == "unread"
NoProbe == [fn |-> None]
NoIter == [url |-> None, pages |-> 0, frontier |-> <<>>, depths |-> <<>>]

base_domain == HostParts(StartUrl)
exclude_patterns == {}
include_patterns == {}

\* time.time() / datetime.now(): the instant in which the crawl runs; times
\* are counted in milliseconds
Now == 0

\* WebCrawler.__init__
Init ==
    /\ pc = "start"
    /\ max_depth \in 0..MaxDepth
    /\ max_pages \in 0..MaxPages
    /\ delay \in {0, 1}
    /\ visited_urls = {}
    /\ failed_urls = {}
    /\ urls_to_visit = <<StartUrl>>
    /\ url_to_depth = (StartUrl :> 0)
    /\ pages_crawled = 0
    /\ results = <<>>
    /\ start_time = NoTime
    /\ end_time = NoTime
    /\ total_work = 0
    /\ completed_work = 0
    /\ current_url = None
    /\ current_depth = 0
    /\ result_dir = <<>>
    /\ analysis = None
    /\ report = NoReport
    /\ processed = <<>>
    /\ pushOrder = <<StartUrl>>
    /\ pushLog = {}
    /\ iter = NoIter
    /\ visitAdds = [u \in Urls |-> 0]
    /\ reportCalls = 0
    /\ page_content = NotRead
    /\ rejected = {}
    /\ slept = FALSE
    /\ probe = NoProbe

\* crawl(), up to the while loop
StartCrawl ==
    /\ pc = "start"
    /\ start_time' = Now
    /\ total_work' = Min(max_pages, IF urls_to_visit # <<>> THEN Len(urls_to_visit) ELSE 1)
    /\ completed_work' = 0
    /\ pc' = "loop"
    /\ UNCHANGED <<max_depth, max_pages, delay, visited_urls, failed_urls,
                   urls_to_visit, url_to_depth, pages_crawled, results, end_time,
                   current_url, current_depth, result_dir, analysis, report,
                   processed, pushOrder, pushLog, iter, visitAdds, reportCalls,
                   page_content, rejected, slept, probe>>

\* mutant: the loop gives up after the first recorded failure
LoopGuardStopsOnFailure ==
    urls_to_visit # <<>> /\ pages_crawled < max_pages /\ failed_urls = {}

\* mutant: off-by-one in the page budget
LoopGuardOffByOne == urls_to_visit # <<>> /\ pages_crawled <= max_pages

\* while self.urls_to_visit and self.pages_crawled < self.max_pages
LoopGuard == urls_to_visit # <<>> /\ pages_crawled < max_pages

\* mutant: the visited check of the loop is missing
AlreadyVisitedNever(url) == FALSE

\* if current_url in self.visited_urls
AlreadyVisited(url) == url \in visited_urls

\* mutant: the stale entry is looked at but left at the head of the queue
PopStaleKeepsEntry ==
    /\ pc = "loop"
    /\ LoopGuard
    /\ AlreadyVisited(Head(urls_to_visit))
    /\ current_url' = Head(urls_to_visit)
    /\ current_depth' = url_to_depth[Head(urls_to_visit)]
    /\ analysis' = None
    /\ page_content' = NotRead
    /\ rejected' = {}
    /\ UNCHANGED <<pc, max_depth, max_pages, delay, visited_urls, failed_urls,
                   urls_to_visit, url_to_depth, pages_crawled, results, start_time,
                   end_time, total_work, completed_work, result_dir, report,
                   processed, pushOrder, pushLog, iter, visitAdds, reportCalls,
                   slept, probe>>

\* popleft of an entry that was visited meanwhile: continue
PopStale ==
    /\ pc = "loop"
    /\ LoopGuard
    /\ AlreadyVisited(Head(urls_to_visit))
    /\ current_url' = Head(urls_to_visit)
    /\ current_depth' = url_to_depth[Head(urls_to_visit)]
    /\ urls_to_visit' = Tail(urls_to_visit)
    /\ analysis' = None
    /\ page_content' = NotRead
    /\ rejected' = {}
    /\ UNCHANGED <<pc, max_depth, max_pages, delay, visited_urls, failed_urls,
                   url_to_depth, pages_crawled, results, start_time, end_time,
                   total_work, completed_work, result_dir, report,
                   processed, pushOrder, pushLog, iter, visitAdds, reportCalls,
                   slept, probe>>

\* mutant: the popped URL is not marked as visited
PopNextNotMarked ==
    /\ pc = "loop"
    /\ LoopGuard
    /\ ~AlreadyVisited(Head(urls_to_visit))
    /\ current_url' = Head(urls_to_visit)
    /\ current_depth' = url_to_depth[Head(urls_to_visit)]
    /\ urls_to_visit' = Tail(urls_to_visit)
    /\ visited_urls' = visited_urls
    /\ completed_work' = completed_work + 1
    /\ iter' = [url |-> Head(urls_to_visit), pages |-> pages_crawled,
                frontier |-> Tail(urls_to_visit), depths |-> url_to_depth]
    /\ visitAdds' = [visitAdds EXCEPT ![Head(urls_to_visit)] = @ + 1]
    /\ analysis' = None
    /\ pc' = "analyze"
    /\ page_content' = NotRead
    /\ rejected' = {}
    /\ UNCHANGED <<max_depth, max_pages, delay, failed_urls, url_to_depth,
                   pages_crawled, results, start_time, end_time, total_work,
                   result_dir, report, processed, pushOrder, pushLog, reportCalls,
                   slept, probe>>

\* popleft, mark as visited, update the progress indicator
PopNext ==
    /\ pc = "loop"
    /\ LoopGuard
    /\ ~AlreadyVisited(Head(urls_to_visit))
    /\ current_url' = Head(urls_to_visit)
    /\ current_depth' = url_to_depth[Head(urls_to_visit)]
    /\ urls_to_visit' = Tail(urls_to_visit)
    /\ visited_urls' = visited_urls \cup {Head(urls_to_visit)}
    /\ completed_work' = completed_work + 1
    /\ iter' = [url |-> Head(urls_to_visit), pages |-> pages_crawled,
                frontier |-> Tail(urls_to_visit), depths |-> url_to_depth]
    /\ visitAdds' = [visitAdds EXCEPT ![Head(urls_to_visit)] = @ + 1]
    /\ analysis' = None
    /\ pc' = "analyze"
    /\ page_content' = NotRead
    /\ rejected' = {}
    /\ UNCHANGED <<max_depth, max_pages, delay, failed_urls, url_to_depth,
                   pages_crawled, results, start_time, end_time, total_work,
                   result_dir, report, processed, pushOrder, pushLog, reportCalls,
                   slept, probe>>

\* mutant: off-by-one in the depth test
AtMaxDepthOffByOne == current_depth > max_depth

\* if current_depth >= self.max_depth: continue
AtMaxDepth == current_depth >= max_depth

\* mutant: the page number is taken after the increment of the counter
RecordResultNumberedLate(outcome) ==
    /\ result_dir' = create_url_based_directory(current_url, Now)
    /\ analysis' = outcome
    /\ processed' = Append(processed, [url |-> current_url, depth |-> current_depth,
                                       analyzer |-> outcome])
    /\ results' = Put(results, current_url,
                      [depth |-> current_depth,
                       result_dir |-> create_url_based_directory(current_url, Now),
                       page_number |-> pages_crawled + 2])
    /\ pages_crawled' = pages_crawled + 1
    /\ pc' = IF AtMaxDepth THEN "loop" ELSE "extract"
    /\ slept' = FALSE
    /\ UNCHANGED <<max_depth, max_pages, delay, visited_urls, failed_urls,
                   urls_to_visit, url_to_depth, start_time, end_time, total_work,
                   completed_work, current_url, current_depth, report, pushOrder,
                   pushLog, iter, visitAdds, reportCalls,
                   page_content, rejected, probe>>

\* self.results[current_url] = {...}; self.pages_crawled += 1
RecordResult(outcome) ==
    /\ result_dir' = create_url_based_directory(current_url, Now)
    /\ analysis' = outcome
    /\ processed' = Append(processed, [url |-> current_url, depth |-> current_depth,
                                       analyzer |-> outcome])
    /\ results' = Put(results, current_url,
                      [depth |-> current_depth,
                       result_dir |-> create_url_based_directory(current_url, Now),
                       page_number |-> pages_crawled + 1])
    /\ pages_crawled' = pages_crawled + 1
    /\ pc' = IF AtMaxDepth THEN "loop" ELSE "extract"
    /\ slept' = FALSE
    /\ UNCHANGED <<max_depth, max_pages, delay, visited_urls, failed_urls,
                   urls_to_visit, url_to_depth, start_time, end_time, total_work,
                   completed_work, current_url, current_depth, report, pushOrder,
                   pushLog, iter, visitAdds, reportCalls,
                   page_content, rejected, probe>>

\* _analyze_page: analyzer.analyze_url returns a result
AnalyzeOk ==
    /\ pc = "analyze"
    /\ RecordResult("ok")

\* mutant: the exception of the analyzer reaches the except clause of crawl()
AnalyzeFailsNotCounted ==
    /\ pc = "analyze"
    /\ failed_urls' = failed_urls \cup {current_url}
    /\ processed' = Append(processed, [url |-> current_url, depth |-> current_depth,
                                       analyzer |-> "failed"])
    /\ pc' = "loop"
    /\ slept' = FALSE
    /\ UNCHANGED <<max_depth, max_pages, delay, visited_urls, urls_to_visit,
                   url_to_depth, pages_crawled, results, start_time, end_time,
                   total_work, completed_work, current_url, current_depth,
                   result_dir, analysis, report, pushOrder, pushLog, iter,
                   visitAdds, reportCalls,
                   page_content, rejected, probe>>

\* _analyze_page: analyzer.analyze_url returns None (else branch) or raises
\* (except branch); either way _analyze_page writes the minimal full_page.html
\* and returns result_dir, so both are the one outcome "failed"
AnalyzeFails ==
    /\ pc = "analyze"
    /\ RecordResult("failed")

\* _analyze_page: _create_url_based_directory / os.makedirs raises before
\* the analyzer is called; the except clause of crawl() records the URL
AnalyzeDirError ==
    /\ pc = "analyze"
    /\ failed_urls' = failed_urls \cup {current_url}
    /\ processed' = Append(processed, [url |-> current_url, depth |-> current_depth,
                                       analyzer |-> None])
    /\ pc' = "loop"
    /\ slept' = FALSE
    /\ UNCHANGED <<max_depth, max_pages, delay, visited_urls, urls_to_visit,
                   url_to_depth, pages_crawled, results, start_time, end_time,
                   total_work, completed_work, current_url, current_depth,
                   result_dir, analysis, report, pushOrder, pushLog, iter,
                   visitAdds, reportCalls,
                   page_content, rejected, probe>>

\* _get_page_content(result_dir) when a full_page.html is found and read:
\* the analyzer's snapshot, or the minimal page written after a failure
\* (a scenario fixes the markup of the start page in its initial state)
PageContents ==
    IF analysis # "ok" THEN {PlaceholderMarkup(current_url)}
    ELSE IF probe.fn = "scenario" /\ current_url = StartUrl THEN {probe.start_page}
    ELSE Markups \cup MalformedMarkups

\* for link in links: if self.should_crawl_url(link): append, set depth,
\* update total_work
RECURSIVE PushLinks(_, _)
PushLinks(links, st) ==
    IF links = <<>> THEN st
    ELSE LET link == Head(links)
         IN  IF should_crawl_url(link, visited_urls, failed_urls, base_domain,
                                 exclude_patterns, include_patterns)
             THEN PushLinks(Tail(links),
                    [queue |-> Append(st.queue, link),
                     depth |-> Put(st.depth, link, current_depth + 1),
                     total |-> Min(max_pages,
                                   Cardinality(visited_urls) + Len(st.queue) + 1),
                     order |-> IF link \in Range(st.order) THEN st.order
                               ELSE Append(st.order, link),
                     log |-> st.log \cup {<<current_url, link>>},
                     rejected |-> st.rejected])
             ELSE PushLinks(Tail(links),
                    [st EXCEPT !.rejected = @ \cup {link}])

\* if self.delay > 0: time.sleep(self.delay)
AfterLinks == IF delay > 0 THEN "delay" ELSE "loop"

\* mutant: a page without readable markup is recorded as failed
ExtractNoContentFails ==
    /\ pc = "extract"
    /\ analysis = "ok"
    /\ page_content' = None
    /\ failed_urls' = failed_urls \cup {current_url}
    /\ pc' = "loop"
    /\ UNCHANGED <<max_depth, max_pages, delay, visited_urls,
                   urls_to_visit, url_to_depth, pages_crawled, results, start_time,
                   end_time, total_work, completed_work, current_url, current_depth,
                   result_dir, analysis, report, processed, pushOrder, pushLog,
                   iter, visitAdds, reportCalls, rejected, slept, probe>>

\* page_content is None: the analyzer returned a result but left no readable
\* full_page.html (its save of the snapshot failed)
ExtractNoContent ==
    /\ pc = "extract"
    /\ analysis = "ok"
    /\ pc' = AfterLinks
    /\ page_content' = None
    /\ UNCHANGED <<max_depth, max_pages, delay, visited_urls, failed_urls,
                   urls_to_visit, url_to_depth, pages_crawled, results, start_time,
                   end_time, total_work, completed_work, current_url, current_depth,
                   result_dir, analysis, report, processed, pushOrder, pushLog,
                   iter, visitAdds, reportCalls,
                   rejected, slept, probe>>

\* extract_links and the for loop over its links
ExtractAndPush ==
    /\ pc = "extract"
    /\ \E markup \in PageContents :
        /\ ~ExtractRaises(markup)
        /\ LET st == PushLinks(extract_links(markup),
                               [queue |-> urls_to_visit, depth |-> url_to_depth,
                                total |-> total_work, order |-> pushOrder,
                                log |-> pushLog, rejected |-> {}])
           IN  /\ urls_to_visit' = st.queue
               /\ url_to_depth' = st.depth
               /\ total_work' = st.total
               /\ pushOrder' = st.order
               /\ pushLog' = st.log
               /\ rejected' = st.rejected
    /\ page_content' = "html"
    /\ pc' = AfterLinks
    /\ UNCHANGED <<max_depth, max_pages, delay, visited_urls, failed_urls,
                   pages_crawled, results, start_time, end_time, completed_work,
                   current_url, current_depth, result_dir, analysis, report,
                   processed, iter, visitAdds, reportCalls,
                   slept, probe>>

\* extract_links raises (urljoin on a malformed href): except clause of crawl()
ExtractError ==
    /\ pc = "extract"
    /\ \E markup \in PageContents :
        /\ ExtractRaises(markup)
    /\ failed_urls' = failed_urls \cup {current_url}
    /\ page_content' = "html"
    /\ pc' = "loop"
    /\ UNCHANGED <<max_depth, max_pages, delay, visited_urls, urls_to_visit,
                   url_to_depth, pages_crawled, results, start_time, end_time,
                   total_work, completed_work, current_url, current_depth,
                   result_dir, analysis, report, processed, pushOrder, pushLog,
                   iter, visitAdds, reportCalls,
                   rejected, slept, probe>>

\* time.sleep(self.delay)
Sleep ==
    /\ pc = "delay"
    /\ pc' = "loop"
    /\ slept' = TRUE
    /\ page_content' = NotRead
    /\ rejected' = {}
    /\ UNCHANGED <<max_depth, max_pages, delay, visited_urls, failed_urls,
                   urls_to_visit, url_to_depth, pages_crawled, results, start_time,
                   end_time, total_work, completed_work, current_url, current_depth,
                   result_dir, analysis, report, processed, pushOrder, pushLog,
                   iter, visitAdds, reportCalls,
                   probe>>

\* self.end_time = time.time()
EndTime == Now

\* mutant: crawl() returns without a report when nothing was crawled
LoopExitSkipsReport ==
    /\ pc = "loop"
    /\ ~LoopGuard
    /\ end_time' = EndTime
    /\ page_content' = NotRead
    /\ rejected' = {}
    /\ pc' = IF pages_crawled = 0 THEN "done" ELSE "report"
    /\ UNCHANGED <<max_depth, max_pages, delay, visited_urls, failed_urls,
                   urls_to_visit, url_to_depth, pages_crawled, results, start_time,
                   total_work, completed_work, current_url, current_depth,
                   result_dir, analysis, report, processed, pushOrder, pushLog,
                   iter, visitAdds, reportCalls,
                   slept, probe>>

\* the while condition is false
LoopExit ==
    /\ pc = "loop"
    /\ ~LoopGuard
    /\ end_time' = EndTime
    /\ page_content' = NotRead
    /\ rejected' = {}
    /\ pc' = "report"
    /\ UNCHANGED <<max_depth, max_pages, delay, visited_urls, failed_urls,
                   urls_to_visit, url_to_depth, pages_crawled, results, start_time,
                   total_work, completed_work, current_url, current_depth,
                   result_dir, analysis, report, processed, pushOrder, pushLog,
                   iter, visitAdds, reportCalls,
                   slept, probe>>

\* mutant: the list of failed URLs is not capped
FailedCapNone == MaxFailed + 1

\* list(self.failed_urls)[:100]
FailedCap == 100

\* f"{x:.2f}" of x = num / den: hundredths, a half rounded to even
Fmt2(num, den) ==
    LET q == (100 * num) \div den
        r == (100 * num) % den
    IN  IF 2 * r > den \/ (2 * r = den /\ q % 2 = 1) THEN q + 1 ELSE q

\* printed summary: pages_crawled / duration if duration > 0 else 0, with
\* the duration in seconds
SummaryRate(pages, duration) ==
    IF duration > 0 THEN Fmt2(pages * 1000, duration) ELSE Fmt2(0, 1)

\* HTML report: pages_crawled / max(duration_seconds, 0.001)
HtmlRate(pages, duration) ==
    Fmt2(pages * 1000, IF duration > 1 THEN duration ELSE 1)

\* _generate_crawl_report, with _generate_html_report and the printed
\* summary; list(self.failed_urls)[:100] keeps the first FailedCap URLs of the
\* set's iteration order, that is, drops any of the others
GenerateReport ==
    /\ pc = "report"
    /\ reportCalls' = reportCalls + 1
    /\ IF start_time = NoTime \/ end_time = NoTime
       THEN report' = report
       ELSE \E dropped \in KSubsets(failed_urls,
                    Cardinality(failed_urls) - Min(FailedCap, Cardinality(failed_urls))) :
              report' = [start_url |-> StartUrl,
                         pages_crawled |-> pages_crawled,
                         max_depth |-> max_depth,
                         duration_seconds |-> end_time - start_time,
                         visited_urls |-> Cardinality(visited_urls),
                         failed_urls |-> Cardinality(failed_urls),
                         pages |-> results,
                         failed |-> failed_urls \ dropped,
                         summary_rate |-> SummaryRate(pages_crawled,
                                                      end_time - start_time),
                         html_rate |-> HtmlRate(pages_crawled,
                                                end_time - start_time)]
    /\ pc' = "done"
    /\ UNCHANGED <<max_depth, max_pages, delay, visited_urls, failed_urls,
                   urls_to_visit, url_to_depth, pages_crawled, results, start_time,
                   end_time, total_work, completed_work, current_url, current_depth,
                   result_dir, analysis, processed, pushOrder, pushLog, iter,
                   visitAdds,
                   page_content, rejected, slept, probe>>

Next ==
    \/ StartCrawl
    \/ PopStale
    \/ PopNext
    \/ AnalyzeOk
    \/ AnalyzeFails
    \/ AnalyzeDirError
    \/ ExtractNoContent
    \/ ExtractAndPush
    \/ ExtractError
    \/ Sleep
    \/ LoopExit
    \/ GenerateReport

Spec == Init /\ [][Next]_vars

\* crawl() is one sequential call: whenever a statement can run, it runs
FairSpec == Spec /\ WF_vars(Next)

\* the fields of a WebCrawler as __init__ leaves them, options aside
Constructed(start_url) ==
    /\ urls_to_visit = <<start_url>>
    /\ url_to_depth = (start_url :> 0)
    /\ pages_crawled = 0
    /\ results = <<>>
    /\ start_time = NoTime
    /\ end_time = NoTime
    /\ total_work = 0
    /\ completed_work = 0
    /\ current_url = None
    /\ current_depth = 0
    /\ result_dir = <<>>
    /\ analysis = None
    /\ report = NoReport
    /\ processed = <<>>
    /\ pushOrder = <<start_url>>
    /\ pushLog = {}
    /\ iter = NoIter
    /\ visitAdds = [u \in Urls |-> 0]
    /\ reportCalls = 0
    /\ page_content = NotRead
    /\ rejected = {}
    /\ slept = FALSE

(***************************************************************************)
(* A crawl that the user stops.  crawl() reads no stop flag: its while      *)
(* condition tests the queue and the budget only.  What stops a running     *)
(* crawl is the interrupt of the process (Ctrl-C raises KeyboardInterrupt,   *)
(* which "except Exception" of crawl(), _analyze_page and main() does not   *)
(* catch), at whatever statement is running.                               *)
(***************************************************************************)
Interrupt ==
    /\ pc \in {"loop", "analyze", "extract", "delay", "report"}
    /\ pc' = "interrupted"
    /\ UNCHANGED <<max_depth, max_pages, delay, visited_urls, failed_urls,
                   urls_to_visit, url_to_depth, pages_crawled, results, start_time,
                   end_time, total_work, completed_work, current_url, current_depth,
                   result_dir, analysis, report, processed, pushOrder, pushLog,
                   iter, visitAdds, reportCalls, page_content, rejected, slept,
                   probe>>

InterruptNext == Next \/ Interrupt

InterruptSpec == Init /\ [][InterruptNext]_vars

(***************************************************************************)
(* Scenario: a crawl of depth 1 over a given start page in which every     *)
(* analysis succeeds and leaves its snapshot.  Only the start page is      *)
(* below max_depth, so the queue never holds a URL twice and no statement   *)
(* of the failure paths runs.                                              *)
(***************************************************************************)
ScenarioInit ==
    /\ pc = "start"
    /\ Constructed(StartUrl)
    /\ visited_urls = {}
    /\ failed_urls = {}
    /\ max_depth = 1
    /\ max_pages \in 0..MaxPages
    /\ delay \in {0, 1}
    /\ probe \in [fn : {"scenario"}, start_page : Markups]

\* the statements of crawl() that run in the scenario
ScenarioNext ==
    \/ StartCrawl
    \/ PopNext
    \/ AnalyzeOk
    \/ ExtractAndPush
    \/ Sleep
    \/ LoopExit
    \/ GenerateReport

ScenarioSpec == ScenarioInit /\ [][ScenarioNext]_vars

(***************************************************************************)
(* Functions of WebCrawler called on their own, on a crawler whose crawl() *)
(* is not running.                                                         *)
(***************************************************************************)
\* the pages of one session that _analyze_page asks a directory for
AllocUrls == {StartUrl, UrlA, UrlAQ, UrlB}

AllocInit ==
    /\ pc = "alloc"
    /\ Constructed(StartUrl)
    /\ max_depth = 1
    /\ max_pages = MaxPages
    /\ delay = 0
    /\ visited_urls = {}
    /\ failed_urls = {}
    /\ probe = [fn |-> "_create_url_based_directory", now |-> 0, dirs |-> <<>>]

\* the wall clock reaches the next second
Tick ==
    /\ pc = "alloc"
    /\ probe.now < MaxClock
    /\ probe' = [probe EXCEPT !.now = @ + 1]
    /\ UNCHANGED <<pc, max_depth, max_pages, delay, visited_urls, failed_urls,
                   urls_to_visit, url_to_depth, pages_crawled, results, start_time,
                   end_time, total_work, completed_work, current_url, current_depth,
                   result_dir, analysis, report, processed, pushOrder, pushLog,
                   iter, visitAdds, reportCalls, page_content, rejected, slept>>

\* _create_url_based_directory(url) for the next page of the session
Allocate ==
    /\ pc = "alloc"
    /\ \E url \in AllocUrls :
          /\ \A i \in DOMAIN probe.dirs : probe.dirs[i].url # url
          /\ probe' = [probe EXCEPT !.dirs =
                 Append(@, [url |-> url,
                            dir |-> create_url_based_directory(url, probe.now)])]
    /\ UNCHANGED <<pc, max_depth, max_pages, delay, visited_urls, failed_urls,
                   urls_to_visit, url_to_depth, pages_crawled, results, start_time,
                   end_time, total_work, completed_work, current_url, current_depth,
                   result_dir, analysis, report, processed, pushOrder, pushLog,
                   iter, visitAdds, reportCalls, page_content, rejected, slept>>

AllocNext == Tick \/ Allocate

AllocSpec == AllocInit /\ [][AllocNext]_vars

(***************************************************************************)
(* scripts/working_crawler.py: working_crawl_with_analysis, the crawler    *)
(* the GUI starts.  Its locals visited, to_visit and page_num are fields   *)
(* of probe, with the list of the URLs passed to session.get.              *)
(***************************************************************************)
\* the absolute URLs that the anchors of the fetched pages resolve to
WorkingUrls == {StartUrl, UrlA, UrlB, UrlX}

WorkingInit ==
    /\ pc = "working"
    /\ Constructed(StartUrl)
    /\ max_depth \in -1..MaxDepth
    /\ max_pages \in 0..MaxPages
    /\ delay = 0
    /\ visited_urls = {}
    /\ failed_urls = {}
    /\ probe = [fn |-> "working_crawl_with_analysis", visited |-> {},
                to_visit |-> <<[url |-> StartUrl, depth |-> 0]>>,
                page_num |-> 0, fetched |-> <<>>]

\* while to_visit and page_num < max_pages
WorkingLoopGuard == probe.to_visit # <<>> /\ probe.page_num < max_pages

\* if current_url in visited or depth > max_depth: continue
WorkingSkipped ==
    \/ Head(probe.to_visit).url \in probe.visited
    \/ Head(probe.to_visit).depth > max_depth

\* the for loop over the anchors of the page: same netloc as the start URL,
\* not in visited, not in to_visit
RECURSIVE WorkingPushLinks(_, _, _, _)
WorkingPushLinks(links, visited, to_visit, depth) ==
    IF links = <<>> THEN to_visit
    ELSE LET absolute_url == Head(links)
             queued == {to_visit[i].url : i \in DOMAIN to_visit}
         IN  IF /\ HostParts(absolute_url) = HostParts(StartUrl)
                /\ absolute_url \notin visited
                /\ absolute_url \notin queued
             THEN WorkingPushLinks(Tail(links), visited,
                      Append(to_visit, [url |-> absolute_url, depth |-> depth + 1]),
                      depth)
             ELSE WorkingPushLinks(Tail(links), visited, to_visit, depth)

WorkingUnchanged ==
    UNCHANGED <<max_depth, max_pages, delay, visited_urls, failed_urls,
                urls_to_visit, url_to_depth, pages_crawled, results, start_time,
                end_time, total_work, completed_work, current_url, current_depth,
                result_dir, analysis, report, processed, pushOrder, pushLog,
                iter, visitAdds, reportCalls, page_content, rejected, slept>>

\* the popped entry is skipped without a fetch
WorkingSkip ==
    /\ pc = "working"
    /\ WorkingLoopGuard
    /\ WorkingSkipped
    /\ probe' = [probe EXCEPT !.to_visit = Tail(@)]
    /\ UNCHANGED pc
    /\ WorkingUnchanged

\* session.get raises or answers with a status other than 200: the URL is
\* not added to visited
WorkingFetchFails ==
    /\ pc = "working"
    /\ WorkingLoopGuard
    /\ ~WorkingSkipped
    /\ probe' = [probe EXCEPT !.to_visit = Tail(@),
                              !.page_num = @ + 1,
                              !.fetched = Append(@, Head(probe.to_visit).url)]
    /\ UNCHANGED pc
    /\ WorkingUnchanged

\* session.get answers 200: the URL is added to visited and, below
\* max_depth, the links of the page are appended to to_visit
WorkingFetchOk ==
    /\ pc = "working"
    /\ WorkingLoopGuard
    /\ ~WorkingSkipped
    /\ \E links \in SeqsUpTo(WorkingUrls, MaxHrefs) :
         LET current == Head(probe.to_visit)
             visited == probe.visited \cup {current.url}
         IN  probe' = [probe EXCEPT
                 !.visited = visited,
                 !.page_num = @ + 1,
                 !.fetched = Append(@, current.url),
                 !.to_visit = IF current.depth < max_depth
                              THEN WorkingPushLinks(links, visited,
                                       Tail(probe.to_visit), current.depth)
                              ELSE Tail(probe.to_visit)]
    /\ UNCHANGED pc
    /\ WorkingUnchanged

\* the loop ends
WorkingExit ==
    /\ pc = "working"
    /\ ~WorkingLoopGuard
    /\ pc' = "done"
    /\ UNCHANGED probe
    /\ WorkingUnchanged

WorkingNext == WorkingSkip \/ WorkingFetchFails \/ WorkingFetchOk \/ WorkingExit

WorkingSpec == WorkingInit /\ [][WorkingNext]_vars

(***************************************************************************)
(* extract_links called on the markup of a page of https://site.test: any  *)
(* sequence of up to MaxHrefs hrefs, repeated ones included.               *)
(***************************************************************************)
ExtractHrefs == {HrefRoot, HrefA, HrefAFrag, HrefX, HrefHash, HrefHashTop, HrefJs,
                 HrefJsUpper, HrefMail, HrefTel, HrefBad}

ExtractInit ==
    /\ pc = "extract_links"
    /\ Constructed(StartUrl)
    /\ max_depth = 1
    /\ max_pages = MaxPages
    /\ delay = 0
    /\ visited_urls = {}
    /\ failed_urls = {}
    /\ \E markup \in SeqsUpTo(ExtractHrefs, MaxHrefs) :
          probe = [fn |-> "extract_links", markup |-> markup, links |-> <<>>]

\* extract_links(page_url, html_content) returns its list
CallExtractLinks ==
    /\ pc = "extract_links"
    /\ ~ExtractRaises(probe.markup)
    /\ probe' = [probe EXCEPT !.links = extract_links(probe.markup)]
    /\ pc' = "returned"
    /\ UNCHANGED <<max_depth, max_pages, delay, visited_urls, failed_urls,
                   urls_to_visit, url_to_depth, pages_crawled, results, start_time,
                   end_time, total_work, completed_work, current_url, current_depth,
                   result_dir, analysis, report, processed, pushOrder, pushLog,
                   iter, visitAdds, reportCalls, page_content, rejected, slept>>

\* extract_links raises the ValueError of urljoin
CallExtractLinksRaises ==
    /\ pc = "extract_links"
    /\ ExtractRaises(probe.markup)
    /\ pc' = "raised"
    /\ UNCHANGED probe
    /\ UNCHANGED <<max_depth, max_pages, delay, visited_urls, failed_urls,
                   urls_to_visit, url_to_depth, pages_crawled, results, start_time,
                   end_time, total_work, completed_work, current_url, current_depth,
                   result_dir, analysis, report, processed, pushOrder, pushLog,
                   iter, visitAdds, reportCalls, page_content, rejected, slept>>

ExtractNext == CallExtractLinks \/ CallExtractLinksRaises

ExtractSpec == ExtractInit /\ [][ExtractNext]_vars

(***************************************************************************)
(* _generate_crawl_report at the end of a crawl: pages recorded pages, and *)
(* n pages whose directory could not be created (visited, failed, without  *)
(* a result), after duration milliseconds.                                 *)
(***************************************************************************)
\* the recorded pages of the ended crawl, in processing order
ReportPages == <<StartUrl, UrlA, UrlB>>

\* the i-th page whose directory could not be created
FailedPage(i) == "https://site.test/f" \o ToString(i)

\* self.results after the first n of ReportPages
ResultsOf(n) ==
    [u \in {ReportPages[i] : i \in 1..n} |->
        LET i == CHOOSE k \in 1..n : ReportPages[k] = u
        IN  [depth |-> IF i = 1 THEN 0 ELSE 1,
             result_dir |-> create_url_based_directory(u, Now),
             page_number |-> i]]

EndOfCrawl(pages, n, duration) ==
    /\ pc = "report"
    /\ max_depth = 1
    /\ max_pages = MaxPages
    /\ delay = 0
    /\ visited_urls = {ReportPages[i] : i \in 1..pages} \cup {FailedPage(i) : i \in 1..n}
    /\ failed_urls = {FailedPage(i) : i \in 1..n}
    /\ urls_to_visit = <<>>
    /\ url_to_depth = [u \in {ReportPages[i] : i \in 1..pages}
                            \cup {FailedPage(i) : i \in 1..n} |->
                         IF u = StartUrl THEN 0 ELSE 1]
    /\ pages_crawled = pages
    /\ results = ResultsOf(pages)
    /\ start_time = Now
    /\ end_time = Now + duration
    /\ total_work = Min(MaxPages, pages + n)
    /\ completed_work = pages + n
    /\ current_url = None
    /\ current_depth = 0
    /\ result_dir = <<>>
    /\ analysis = None
    /\ report = NoReport
    /\ processed = <<>>
    /\ pushOrder = <<StartUrl>>
    /\ pushLog = {}
    /\ iter = NoIter
    /\ visitAdds = [u \in Urls |-> 0]
    /\ reportCalls = 0
    /\ page_content = NotRead
    /\ rejected = {}
    /\ slept = FALSE
    /\ probe = [fn |-> "_generate_crawl_report"]

\* a crawl of one page with up to MaxFailed failed pages, or a crawl of up
\* to three pages and one failed page that took up to MaxDuration ms
ReportInit ==
    \/ \E n \in 0..MaxFailed : EndOfCrawl(1, n, 0)
    \/ \E pages \in 1..Len(ReportPages), n \in 0..1, duration \in 0..MaxDuration :
          EndOfCrawl(pages, n, duration)

ReportNext == GenerateReport

ReportSpec == ReportInit /\ [][ReportNext]_vars

\* start URLs and discovered links for calls of the filter
FilterUrls == {StartUrl, UrlA, UrlX, UrlPort, UrlShop, UrlWww, UrlEvil,
               UrlLocal, UrlIntra, UrlYnet, UrlYnetNews, UrlYnetApi}

\* a session on some start URL in which the start page is being processed
\* and some other pages were visited before, one of them with a failure
FilterInit ==
    /\ pc = "filter"
    /\ \E start_url \in FilterUrls :
          /\ Constructed(start_url)
          /\ probe = [fn |-> "should_crawl_url", start |-> start_url,
                      url |-> start_url, calls |-> 0, result |-> FALSE, log |-> {}]
          /\ \E seen \in SUBSET {u \in {UrlA, UrlWww} :
                                    IsRelatedDomain(u, HostParts(start_url))} :
                /\ visited_urls = {start_url} \cup seen
                /\ failed_urls \in SUBSET (seen \cap {UrlWww})
    /\ max_depth = 1
    /\ max_pages = MaxPages
    /\ delay = 0

\* mutant: the filter marks the URL it is asked about as seen
CallShouldCrawlMarksSeen ==
    /\ pc = "filter"
    /\ probe.calls < MaxCalls
    /\ \E link \in FilterUrls :
          LET r == should_crawl_url(link, visited_urls, failed_urls,
                                    HostParts(probe.start), exclude_patterns,
                                    include_patterns)
          IN  /\ probe' = [probe EXCEPT !.url = link, !.calls = @ + 1, !.result = r,
                                        !.log = @ \cup {<<link, r>>}]
              /\ visited_urls' = visited_urls \cup {link}
    /\ pc' = "called"
    /\ UNCHANGED <<max_depth, max_pages, delay, failed_urls,
                   urls_to_visit, url_to_depth, pages_crawled, results, start_time,
                   end_time, total_work, completed_work, current_url, current_depth,
                   result_dir, analysis, report, processed, pushOrder, pushLog,
                   iter, visitAdds, reportCalls, page_content, rejected, slept>>

\* self.should_crawl_url(link) for a discovered link
CallShouldCrawl ==
    /\ pc = "filter"
    /\ probe.calls < MaxCalls
    /\ \E link \in FilterUrls :
          LET r == should_crawl_url(link, visited_urls, failed_urls,
                                    HostParts(probe.start), exclude_patterns,
                                    include_patterns)
          IN  probe' = [probe EXCEPT !.url = link, !.calls = @ + 1, !.result = r,
                                     !.log = @ \cup {<<link, r>>}]
    /\ pc' = "called"
    /\ UNCHANGED <<max_depth, max_pages, delay, visited_urls, failed_urls,
                   urls_to_visit, url_to_depth, pages_crawled, results, start_time,
                   end_time, total_work, completed_work, current_url, current_depth,
                   result_dir, analysis, report, processed, pushOrder, pushLog,
                   iter, visitAdds, reportCalls, page_content, rejected, slept>>

\* the body of "if self.should_crawl_url(link):" in the link loop of crawl()
PushAccepted ==
    /\ pc = "called"
    /\ probe.result
    /\ urls_to_visit' = Append(urls_to_visit, probe.url)
    /\ url_to_depth' = Put(url_to_depth, probe.url, current_depth + 1)
    /\ total_work' = Min(max_pages, Cardinality(visited_urls) + Len(urls_to_visit) + 1)
    /\ pushOrder' = IF probe.url \in Range(pushOrder) THEN pushOrder
                    ELSE Append(pushOrder, probe.url)
    /\ pc' = "filter"
    /\ UNCHANGED <<max_depth, max_pages, delay, visited_urls, failed_urls,
                   pages_crawled, results, start_time, end_time, completed_work,
                   current_url, current_depth, result_dir, analysis, report,
                   processed, pushLog, iter, visitAdds, reportCalls, page_content,
                   rejected, slept, probe>>

\* the filter returned False: the loop goes to the next link
SkipRejected ==
    /\ pc = "called"
    /\ ~probe.result
    /\ pc' = "filter"
    /\ UNCHANGED <<max_depth, max_pages, delay, visited_urls, failed_urls,
                   urls_to_visit, url_to_depth, pages_crawled, results, start_time,
                   end_time, total_work, completed_work, current_url, current_depth,
                   result_dir, analysis, report, processed, pushOrder, pushLog,
                   iter, visitAdds, reportCalls, page_content, rejected, slept,
                   probe>>

FilterNext == CallShouldCrawl \/ PushAccepted \/ SkipRejected

FilterSpec == FilterInit /\ [][FilterNext]_vars

(***************************************************************************)
(* Properties.                                                             *)
(***************************************************************************)
\* number of _analyze_page calls for url
Calls(url) == Cardinality({i \in DOMAIN processed : processed[i].url = url})

\* the analyzer raised or returned None for the page of this iteration
AnalyzerFailed == analysis = "failed"

\* the loop body for iter.url has ended and nothing was popped since
IterationEnded == pc = "loop" /\ iter.url # None /\ current_url = iter.url

\* C1: no URL is added to visited_urls twice and _analyze_page runs at most
\* once per URL, whatever the links and the outcomes of the analyses
C1_NoDoubleProcessing ==
    \A u \in Urls : visitAdds[u] <= 1 /\ Calls(u) <= 1

\* a URL was queued twice, analyzed once with a failure, and its second
\* queue entry was popped and skipped
C1_Witness ==
    /\ pc = "loop"
    /\ current_url # None
    /\ current_url # iter.url
    /\ Calls(current_url) = 1
    /\ \E i \in DOMAIN processed :
          processed[i].url = current_url /\ processed[i].analyzer # "ok"

\* C2: pages_crawled <= max_pages in every state of crawl(), for every
\* max_pages >= 0
C2_BudgetRespected == pages_crawled <= max_pages

\* the loop ended on the page budget with entries left in the queue
C2_Witness ==
    /\ pc = "done"
    /\ max_pages > 0
    /\ pages_crawled = max_pages
    /\ urls_to_visit # <<>>

\* C3: when the analyzer raises or returns None for a URL, at the end of
\* that iteration the URL is in failed_urls and pages_crawled has grown by
\* exactly one
C3_FailureRecorded ==
    (IterationEnded /\ AnalyzerFailed) =>
        (iter.url \in failed_urls /\ pages_crawled = iter.pages + 1)

\* C4: once url_to_depth[u] is set it never changes
C4_DepthSetOnce ==
    [][\A u \in DOMAIN url_to_depth : url_to_depth'[u] = url_to_depth[u]]_vars

\* C5: in every state the start URL has depth 0 and every child appended
\* while processing a parent has the parent's depth plus one
C5_ChildDepth ==
    /\ url_to_depth[StartUrl] = 0
    /\ \A e \in pushLog : url_to_depth[e[2]] = url_to_depth[e[1]] + 1

\* the pages that have a CrawlResult, in processing order
Recorded == SelectSeq(processed, LAMBDA r : r.analyzer # None)

\* C6: the recorded depths never decrease along the processing order, and
\* pages are processed in the order of their first append to the queue
C6_BreadthFirst ==
    /\ \A i, j \in DOMAIN Recorded :
          i < j => Recorded[i].depth <= Recorded[j].depth
    /\ \A i \in DOMAIN processed : processed[i].url = pushOrder[i]

\* C7: every popped entry has depth <= max_depth, and a page whose depth is
\* >= max_depth appends nothing to the queue
C7_DepthCeiling ==
    /\ current_url # None => current_depth <= max_depth
    /\ \A i \in DOMAIN processed : processed[i].depth <= max_depth
    /\ pc = "extract" => current_depth < max_depth
    /\ \A e \in pushLog :
          \E i \in DOMAIN processed :
              processed[i].url = e[1] /\ processed[i].depth < max_depth

\* a page at depth max_depth >= 1 was analyzed successfully and its
\* iteration ended without touching the queue
C7_Witness ==
    /\ IterationEnded
    /\ analysis = "ok"
    /\ max_depth >= 1
    /\ current_depth = max_depth
    /\ urls_to_visit = iter.frontier
    /\ pushLog # {}

\* C8: when the analyzer fails for a URL, the queue and url_to_depth at the
\* end of its iteration are what they were just after the pop
C8_FailedPageHasNoChildren ==
    (AnalyzerFailed /\ pc \in {"loop", "delay"} /\ current_url = iter.url) =>
        (urls_to_visit = iter.frontier /\ url_to_depth = iter.depths)

\* a failure was met while processing the page of processed[i]
FailedAt(i) == processed[i].analyzer # "ok" \/ processed[i].url \in failed_urls

\* C9: a failure never ends the crawl: the loop is left only with an empty
\* queue or an exhausted budget, every discovered URL is processed unless the
\* budget ran out, and a failed URL is never processed again
C9_FailureDoesNotEndCrawl ==
    /\ pc \in {"report", "done"} =>
          (urls_to_visit = <<>> \/ pages_crawled >= max_pages)
    /\ (pc = "done" /\ pages_crawled < max_pages) =>
          Range(pushOrder) \subseteq visited_urls
    /\ \A i \in DOMAIN processed : FailedAt(i) => Calls(processed[i].url) = 1

\* the crawl ended after a page failed and a later page was analyzed
C9_Witness ==
    /\ pc = "done"
    /\ \E i, j \in DOMAIN processed :
          /\ i < j
          /\ processed[i].url \in failed_urls
          /\ processed[j].analyzer = "ok"
    /\ \E i \in DOMAIN processed : processed[i].analyzer = "failed"

C11_Terminates == <>(pc = "done" /\ reportCalls = 1 /\ end_time # NoTime)

\* a crawl ended although a queued duplicate had to be skipped, a page failed
\* and links were followed below the start page
C11_Witness ==
    /\ pc = "done"
    /\ reportCalls = 1
    /\ failed_urls # {}
    /\ \E i \in DOMAIN processed : processed[i].analyzer = "failed"
    /\ \E i \in DOMAIN processed : processed[i].depth = 2
    /\ \E u \in visited_urls : current_url = u /\ iter.url # u

\* C12: any two pages of one session get different output directories, also
\* two URLs of one host whose paths give the same directory name (or that
\* differ only in the query string) and that are processed in the same second
C12_DistinctPaths ==
    \A i, j \in DOMAIN probe.dirs :
        i # j => probe.dirs[i].dir # probe.dirs[j].dir

\* C13: with a delay configured, time.sleep(delay) runs between any two
\* consecutive _analyze_page calls of a crawl, also after a page at max_depth
\* and after a page whose processing failed
C13_DelayBetweenPages ==
    (pc = "analyze" /\ processed # <<>> /\ delay > 0) => slept

\* C14: when the user stops a crawl, the page in flight is finished, no
\* further _analyze_page call starts, the loop is left at the top of the next
\* iteration and the crawl report is still generated
C14_StopStillReports ==
    pc = "interrupted" =>
        /\ reportCalls = 1
        /\ report.start_url = StartUrl
        /\ current_url # None =>
              (current_url \in DOMAIN results \/ current_url \in failed_urls)

\* the URLs of the start page's links, in document order
StartLinks == extract_links(probe.start_page)

\* the links of the start page to the start host
SameHostLinks == SelectSeq(StartLinks, LAMBDA u : HostParts(u) = HostParts(StartUrl))

\* the links of the start page to other pages of the start host
OtherPageLinks == SelectSeq(SameHostLinks, LAMBDA u : u # StartUrl)

\* the URLs handed to _analyze_page, in order
ProcessedUrls == [i \in DOMAIN processed |-> processed[i].url]

\* C15 as stated: with max_depth 1, max_pages N >= 1 and every analysis
\* succeeding, a start page with k >= N-1 links to URLs of the start host
\* gives exactly N processed pages, the start page and then the first N-1 of
\* those links, and no URL of another host is ever queued
C15_ScenarioAsStated ==
    (pc = "done" /\ max_pages >= 1 /\ Len(SameHostLinks) >= max_pages - 1) =>
        /\ pages_crawled = max_pages
        /\ ProcessedUrls = <<StartUrl>> \o SubSeq(SameHostLinks, 1, max_pages - 1)
        /\ \A u \in Range(pushOrder) : HostParts(u) = HostParts(StartUrl)

\* C15, amended: the same with k counting the links to pages of the start
\* host other than the start page itself
C15_Scenario ==
    (pc = "done" /\ max_pages >= 1 /\ Len(OtherPageLinks) >= max_pages - 1) =>
        /\ pages_crawled = max_pages
        /\ ProcessedUrls = <<StartUrl>> \o SubSeq(OtherPageLinks, 1, max_pages - 1)
        /\ \A u \in Range(pushOrder) : HostParts(u) = HostParts(StartUrl)
        /\ \A u \in Range(urls_to_visit) : HostParts(u) = HostParts(StartUrl)

\* a crawl of three pages ended: the start page linked to another host and
\* to two pages of its own host
C15_Witness ==
    /\ pc = "done"
    /\ max_pages = 3
    /\ pages_crawled = 3
    /\ UrlX \in Range(StartLinks)
    /\ Len(OtherPageLinks) = 2

\* a host is the start host, or both have two labels and the same last two
RelatedHosts(h, s) ==
    \/ h = s
    \/ /\ Len(h) >= 2
       /\ Len(s) >= 2
       /\ h[Len(h)] = s[Len(s)]
       /\ h[Len(h) - 1] = s[Len(s) - 1]

\* C16: should_crawl_url accepts no URL of an unrelated host and refuses no
\* new URL because of its host when the host is related to the start host
\* (the same host, or the same last two labels); so every URL appended to
\* the queue has a related host
C16_DomainRule ==
    /\ \A e \in probe.log :
          LET rel == RelatedHosts(HostParts(e[1]), HostParts(probe.start))
          IN  /\ e[2] => rel
              /\ (/\ rel
                  /\ e[1] \notin visited_urls \cup failed_urls
                  /\ ~RejectedByPathRules(e[1], visited_urls, exclude_patterns,
                                          include_patterns)) => e[2]
    /\ \A u \in Range(urls_to_visit) :
          RelatedHosts(HostParts(u), HostParts(probe.start))

\* on a crawl of shop.example.com the filter refused evil.com/x and accepted
\* www.example.com/x, which was appended to the queue
C16_Witness ==
    /\ probe.start = UrlShop
    /\ <<UrlEvil, FALSE>> \in probe.log
    /\ <<UrlWww, TRUE>> \in probe.log
    /\ urls_to_visit = <<UrlShop, UrlWww>>

\* C17: a call of should_crawl_url changes none of visited_urls,
\* failed_urls, urls_to_visit, url_to_depth and pages_crawled, and all calls
\* of a session state for one URL return the same result
C17_FilterIsPure ==
    [][probe'.calls > probe.calls =>
          /\ UNCHANGED <<visited_urls, failed_urls, urls_to_visit, url_to_depth,
                         pages_crawled>>
          /\ \A e1, e2 \in probe'.log : e1[1] = e2[1] => e1[2] = e2[2]]_vars

\* the filter was called twice for one URL and accepted it both times,
\* although the first call had put it into the queue
C17_Witness ==
    /\ pc = "called"
    /\ probe.calls = 2
    /\ probe.result
    /\ probe.log = {<<probe.url, TRUE>>}
    /\ probe.url \in Range(urls_to_visit)

\* C18: a URL that is in visited_urls or in failed_urls when a page's links
\* are filtered is not appended to the queue
C18_NoSeenUrlPushed ==
    [][\A i \in (Len(urls_to_visit) + 1)..Len(urls_to_visit') :
          urls_to_visit'[i] \notin visited_urls \cup failed_urls]_vars

\* a page linked to a visited page, to a failed page and to a new page:
\* only the new page was appended
C18_Witness ==
    /\ pc \in {"loop", "delay"}
    /\ page_content = "html"
    /\ rejected \cap failed_urls # {}
    /\ (rejected \cap visited_urls) \ failed_urls # {}
    /\ Len(urls_to_visit) = Len(iter.frontier) + 1

\* C19: when the analyzer succeeded for a page but _get_page_content finds
\* no readable full_page.html, the page appends nothing to the queue, is not
\* added to failed_urls, and is counted in pages_crawled with an entry in
\* results
C19_UnreadableMarkup ==
    (page_content = None /\ pc \in {"loop", "delay"}) =>
        /\ analysis = "ok"
        /\ current_url = iter.url
        /\ urls_to_visit = iter.frontier
        /\ url_to_depth = iter.depths
        /\ current_url \notin failed_urls
        /\ current_url \in DOMAIN results
        /\ results[current_url].page_number = pages_crawled
        /\ pages_crawled = iter.pages + 1

\* the second page of a crawl was analyzed but its markup could not be
\* read, while another page was waiting in the queue
C19_Witness ==
    /\ page_content = None
    /\ pc \in {"loop", "delay"}
    /\ current_depth = 1
    /\ pages_crawled = 2
    /\ urls_to_visit # <<>>
    /\ failed_urls = {}

\* C20: once its iteration has ended every URL of visited_urls has exactly
\* one entry {depth, result_dir, page_number} in results, and an entry stays
\* what it was when it was recorded
C20_OneResultPerPage ==
    /\ \A u \in visited_urls :
          (pc = "analyze" /\ u = current_url) \/ u \in DOMAIN results
    /\ Cardinality(DOMAIN results) = Len(Recorded)
    /\ \A i \in DOMAIN Recorded :
          /\ Recorded[i].url \in DOMAIN results
          /\ results[Recorded[i].url] =
                [depth |-> Recorded[i].depth,
                 result_dir |-> create_url_based_directory(Recorded[i].url, Now),
                 page_number |-> i]

\* C21: failed_urls is a subset of visited_urls in every state: a URL is
\* added to failed_urls only after it was popped and added to visited_urls
C21_FailedAreVisited == failed_urls \subseteq visited_urls

\* a crawl ended with two failed pages, one whose directory could not be
\* created and one whose links could not be extracted
C21_Witness ==
    /\ pc = "done"
    /\ \E u, v \in failed_urls :
          /\ u # v
          /\ u \notin DOMAIN results
          /\ v \in DOMAIN results

\* C22: the report of an ended crawl has pages_crawled, the size of
\* visited_urls and the size of failed_urls of the final state, and its list
\* of failed URLs is a subset of failed_urls with min(|failed_urls|, 100)
\* entries
C22_ReportCounts ==
    pc = "done" =>
        /\ report.pages_crawled = pages_crawled
        /\ report.visited_urls = Cardinality(visited_urls)
        /\ report.failed_urls = Cardinality(failed_urls)
        /\ report.pages = results
        /\ report.failed \subseteq failed_urls
        /\ Cardinality(report.failed) =
              IF Cardinality(failed_urls) < 100 THEN Cardinality(failed_urls) ELSE 100

\* the report of a crawl with more than 100 failed pages was generated
C22_Witness ==
    /\ pc = "done"
    /\ Cardinality(failed_urls) > 100
    /\ Cardinality(report.failed) = 100
    /\ report.failed_urls = Cardinality(failed_urls)

\* C23: the pages per second of the printed summary and of the HTML report
\* are pages_crawled / duration when the duration is positive and 0 when it
\* is 0
C23_Throughput ==
    pc = "done" =>
        LET duration == end_time - start_time
            expected == IF duration > 0 THEN Fmt2(pages_crawled * 1000, duration)
                        ELSE 0
        IN  /\ report.summary_rate = expected
            /\ report.html_rate = expected

\* C24: a URL of the allow-listed site whose path has an allow-listed
\* prefix such as /news/ is accepted by should_crawl_url even when it also
\* has a segment of the API and asset rule such as /api/, when every other
\* rule passes
C24_AllowListOverrides ==
    \A e \in probe.log :
        (/\ IsYnetAllowed(e[1])
         /\ e[1] \notin visited_urls \cup failed_urls
         /\ RelatedHosts(HostParts(e[1]), HostParts(probe.start))
         /\ ~EndsWithExcludedExt(e[1])
         /\ UrlLen(e[1]) <= 750) => e[2]

\* the targets an extracted link must not come from: '#' alone, javascript:
\* and mailto: (an empty target is never captured by href_pattern)
IsForbiddenTarget(link) == link \in {HrefHash, HrefJs, HrefJsUpper, HrefMail}

\* C25: the list extract_links returns has no duplicates, every element is
\* an absolute http:// or https:// URL without '#', and every element is the
\* normalized URL of a target of the markup that is not '#' alone, not a
\* javascript: and not a mailto: target
C25_ExtractedLinks ==
    pc = "returned" =>
        LET links == probe.links
        IN  /\ \A i, j \in DOMAIN links : i # j => links[i] # links[j]
            /\ \A i \in DOMAIN links :
                  /\ StartsWithHttp(links[i])
                  /\ ~HasFragment(links[i])
                  /\ \E k \in DOMAIN probe.markup :
                        /\ ~IsForbiddenTarget(probe.markup[k])
                        /\ NormalizedUrl(probe.markup[k]) = links[i]

\* a markup with a target with a fragment, the same target without it and a
\* javascript: target has been extracted to the one URL
C25_Witness ==
    /\ pc = "returned"
    /\ probe.links = <<UrlA>>
    /\ probe.markup = <<HrefAFrag, HrefA, HrefJs>>

\* C26: analyzer.analyze_url is invoked at most max_pages times in a crawl:
\* every invocation, whether it succeeds, returns None or raises, is followed
\* by pages_crawled += 1 before the next one, so the invocations made so far
\* are as many as pages_crawled
C26_AnalyzerCalls ==
    /\ Len(Recorded) = pages_crawled
    /\ Len(Recorded) <= max_pages

\* the crawl ended at the page limit with URLs still queued, after analyses
\* that succeeded and analyses that failed
C26_Witness ==
    /\ pc = "done"
    /\ Len(Recorded) = max_pages
    /\ urls_to_visit # <<>>
    /\ \E i, j \in DOMAIN Recorded :
          Recorded[i].analyzer = "ok" /\ Recorded[j].analyzer = "failed"

\* C27: no URL is in urls_to_visit more than once at the same time
C27_NoDuplicateInQueue ==
    \A i, j \in DOMAIN urls_to_visit : i # j => urls_to_visit[i] # urls_to_visit[j]

\* C28: in every state self.results has pages_crawled entries, and the page
\* that was recorded i-th has page_number i, so the page numbers are exactly
\* 1..pages_crawled, each once, in processing order
C28_PageNumbers ==
    /\ Cardinality(DOMAIN results) = pages_crawled
    /\ {results[u].page_number : u \in DOMAIN results} = 1..pages_crawled
    /\ \A i \in DOMAIN Recorded :
          /\ Recorded[i].url \in DOMAIN results
          /\ results[Recorded[i].url].page_number = i

\* three pages were recorded, and a page whose directory could not be
\* created was processed between two of them
C28_Witness ==
    /\ pc = "done"
    /\ pages_crawled >= 3
    /\ \E i, j, k \in DOMAIN processed :
          /\ i < j /\ j < k
          /\ processed[i].analyzer # None
          /\ processed[j].analyzer = None
          /\ processed[k].analyzer # None

\* C29: every progress value is computed with total_work >= 1 and lies in
\* (0%, 100%]: when progress = completed_work / total_work * 100 is computed,
\* 1 <= completed_work <= total_work
C29_ProgressInRange ==
    pc = "analyze" =>
        /\ total_work >= 1
        /\ completed_work >= 1
        /\ completed_work <= total_work

\* C30: working_crawl_with_analysis passes no URL to session.get twice in
\* one crawl, URLs whose fetch failed included
C30_FetchedOnce ==
    \A i, j \in DOMAIN probe.fetched :
        i # j => probe.fetched[i] # probe.fetched[j]

====
